---- MODULE Spec2Model ----
(***************************************************************************)
(* The action-plan execution engine of agent/cli.mjs.  The file holds two  *)
(* entry points over the same project directory: main (the CLI pipeline,   *)
(* PlanSchema + safeWrite + runCommand) and runAgent (the public API,      *)
(* validatePlan + resolveInsideWeb + runWhitelistedCommand).               *)
(*                                                                         *)
(* Strings the code inspects character by character (paths) are tuples of  *)
(* one-character strings.  A command line is the tuple of its words, i.e.  *)
(* the image of String.split(" "), which determines the string.  File      *)
(* contents are only copied and tested for emptiness: plain strings.       *)
(***************************************************************************)
EXTENDS Integers, Sequences, FiniteSets, TLC

\* ------------------------------------------------------------------ bounds

MaxPlanLen == 2

\* ------------------------------------------------------------ string basics

StartsWith(s, pre) ==
  Len(s) >= Len(pre) /\ SubSeq(s, 1, Len(pre)) = pre

EndsWith(s, suf) ==
  Len(s) >= Len(suf) /\ SubSeq(s, Len(s) - Len(suf) + 1, Len(s)) = suf

RECURSIVE SplitFrom(_, _, _)
SplitFrom(s, c, cur) ==
  IF s = <<>> THEN <<cur>>
  ELSE IF Head(s) = c THEN <<cur>> \o SplitFrom(Tail(s), c, <<>>)
  ELSE SplitFrom(Tail(s), c, Append(cur, Head(s)))

\* String.prototype.split(c) for a one-character separator
Split(s, c) == SplitFrom(s, c, <<>>)

RECURSIVE Join(_, _)
\* Array.prototype.join(c)
Join(segs, c) ==
  IF segs = <<>> THEN <<>>
  ELSE IF Len(segs) = 1 THEN segs[1]
  ELSE segs[1] \o <<c>> \o Join(Tail(segs), c)

\* ---------------------------------------------------------- node:path (posix)

DotDot == <<".", ".">>

RECURSIVE NormalizeSegs(_, _, _)
NormalizeSegs(segs, acc, allowAboveRoot) ==
  IF segs = <<>> THEN acc
  ELSE LET h == Head(segs)
           rest == Tail(segs)
       IN IF h = <<>> \/ h = <<".">> THEN NormalizeSegs(rest, acc, allowAboveRoot)
          ELSE IF h = DotDot
               THEN IF acc # <<>> /\ acc[Len(acc)] # DotDot
                    THEN NormalizeSegs(rest, SubSeq(acc, 1, Len(acc) - 1), allowAboveRoot)
                    ELSE IF allowAboveRoot
                         THEN NormalizeSegs(rest, Append(acc, h), allowAboveRoot)
                         ELSE NormalizeSegs(rest, acc, allowAboveRoot)
               ELSE NormalizeSegs(rest, Append(acc, h), allowAboveRoot)

\* collapses "", "." and ".." segments; the result has no leading or trailing "/"
normalizeString(p, allowAboveRoot) ==
  Join(NormalizeSegs(Split(p, "/"), <<>>, allowAboveRoot), "/")

isAbsolute(p) == p # <<>> /\ p[1] = "/"

\* path.resolve(from, to) with from absolute: the rightmost absolute argument
\* starts the result, empty arguments are skipped, no trailing separator
pathResolve(from, to) ==
  LET joined == IF to = <<>> THEN from
                ELSE IF isAbsolute(to) THEN to
                ELSE from \o <<"/">> \o to
  IN <<"/">> \o normalizeString(joined, FALSE)

\* path.join(a, b) with a absolute: the non-empty arguments joined by "/" and
\* normalized; an absolute b does NOT restart the path; a trailing "/" is kept
pathJoin(a, b) ==
  LET joined == IF b = <<>> THEN a ELSE a \o <<"/">> \o b
      body == normalizeString(joined, FALSE)
      trailing == joined[Len(joined)] = "/"
  IN IF body = <<>> THEN <<"/">>
     ELSE IF trailing THEN <<"/">> \o body \o <<"/">>
     ELSE <<"/">> \o body

\* path.dirname of an absolute path
pathDirname(p) ==
  LET segs == NormalizeSegs(Split(p, "/"), <<>>, FALSE)
  IN IF Len(segs) <= 1 THEN <<"/">>
     ELSE <<"/">> \o Join(SubSeq(segs, 1, Len(segs) - 1), "/")

\* ------------------------------------------------------------------ config

WEB_ROOT == <<"/", "a", "/", "w", "e", "b">>

WEB_ROOT_WITH_SEP == WEB_ROOT \o <<"/">>

\* the command lines main may run
CMD_WHITELIST ==
  { <<"npm", "run", "dev">>, <<"npm", "run", "build">>,
    <<"next", "dev">>, <<"next", "build">>,
    <<"next", "start">>, <<"npm", "run", "lint">>,
    <<"npm", "run", "typecheck">> }

\* the command lines runAgent may run
whitelist ==
  { <<"npm", "run", "dev">>, <<"npm", "run", "build">>, <<"npm", "run", "lint">>,
    <<"npm", "run", "typecheck">>, <<"next", "dev">>, <<"next", "build">>,
    <<"next", "start">> }

\* ------------------------------------------------- string literals of the code

S_app == <<"a", "p", "p", "/">>
S_page_tsx == <<"/", "p", "a", "g", "e", ".", "t", "s", "x">>
S_pages == <<"p", "a", "g", "e", "s", "/">>
S_tsx == <<".", "t", "s", "x">>
S_index == <<"i", "n", "d", "e", "x">>
S_slash_index == <<"/", "i", "n", "d", "e", "x">>
S_app_page == <<"a", "p", "p", "/", "p", "a", "g", "e", ".", "t", "s", "x">>
S_pages_index == <<"p", "a", "g", "e", "s", "/", "i", "n", "d", "e", "x", ".", "t", "s", "x">>

\* ------------------------------------------------- what a planner may send

P_secret == <<".", ".", "/", "s", "e", "c", "r", "e", "t">>
P_passwd == <<".", ".", "/", ".", ".", "/", "e", "t", "c", "/", "p", "a", "s", "s", "w", "d">>
P_evil == <<".", ".", "/", "w", "e", "b", "-", "e", "v", "i", "l", "/", "x">>
P_dot == <<".">>
P_about == <<"a", "p", "p", "/", "(", "m", "a", "r", "k", "e", "t", "i", "n", "g", ")", "/", "a", "b", "o", "u", "t", "/", "p", "a", "g", "e", ".", "t", "s", "x">>
P_blog == <<"p", "a", "g", "e", "s", "/", "b", "l", "o", "g", "/", "i", "n", "d", "e", "x", ".", "t", "s", "x">>

C_build == <<"npm", "run", "build">>
C_build_args == <<"npm", "run", "build", "--force">>
C_build_meta == <<"npm", "run", "build;", "rm", "-rf", "/">>
C_build_case == <<"NPM", "RUN", "BUILD">>

\* JSON objects a planner reply can carry in its action list: well-formed
\* actions inside and outside the project root, run_command in the field name
\* of either entry point, rejected command lines, an unknown kind, and
\* actions with a field missing
ActionUniverse ==
  { [type |-> "create_file", path |-> S_app_page, contents |-> "c1"],
    [type |-> "update_file", path |-> S_app_page, contents |-> "c2"],
    [type |-> "update_file", path |-> S_app_page, contents |-> ""],
    [type |-> "create_file", path |-> P_about, contents |-> "c1"],
    [type |-> "create_file", path |-> P_secret, contents |-> "c1"],
    [type |-> "update_file", path |-> P_evil, contents |-> "c2"],
    [type |-> "delete_file", path |-> S_app_page],
    [type |-> "delete_file", path |-> P_blog],
    [type |-> "delete_file", path |-> P_secret],
    [type |-> "delete_file", path |-> P_passwd],
    [type |-> "delete_file", path |-> P_dot],
    [type |-> "run_command", command |-> C_build],
    [type |-> "run_command", script |-> C_build],
    [type |-> "run_command", command |-> C_build_args],
    [type |-> "run_command", script |-> C_build_meta],
    [type |-> "run_command", command |-> C_build_case, script |-> C_build_case],
    [type |-> "exec_shell", command |-> C_build],
    [type |-> "delete_file"],
    [type |-> "create_file", path |-> S_app_page] }

RECURSIVE SeqsUpTo(_, _)
SeqsUpTo(S, n) ==
  IF n = 0 THEN { <<>> }
  ELSE LET shorter == SeqsUpTo(S, n - 1)
       IN shorter \cup { Append(q, a) : q \in { r \in shorter : Len(r) = n - 1 }, a \in S }

PlanUniverse == SeqsUpTo(ActionUniverse, MaxPlanLen)

\* ------------------------------------------------------------ the file tree

\* disk = [files |-> function from absolute path to contents,
\*         dirs  |-> set of absolute paths of directories]
F_secret == <<"/", "a", "/", "s", "e", "c", "r", "e", "t">>
F_passwd == <<"/", "e", "t", "c", "/", "p", "a", "s", "s", "w", "d">>

InitialDisk ==
  [ files |-> [ f \in {F_secret, F_passwd} |-> "orig" ],
    dirs  |-> { <<"/">>, <<"/", "a">>, WEB_ROOT, WEB_ROOT_WITH_SEP \o <<"a", "p", "p">>,
                <<"/", "e", "t", "c">>, <<"/", "a", "/", "w", "e", "b", "-", "e", "v", "i", "l">> } ]

\* the directory chain of an absolute path, itself included
AncestorsAndSelf(abs) ==
  LET segs == NormalizeSegs(Split(abs, "/"), <<>>, FALSE)
  IN { <<"/">> \o Join(SubSeq(segs, 1, k), "/") : k \in 0..Len(segs) }

\* fs.mkdir(dir, {recursive: true}) / fs.mkdirSync: fails when a component is a file
mkdirRecursive(d, dir) ==
  IF \E c \in AncestorsAndSelf(dir) : c \in DOMAIN d.files
  THEN [ok |-> FALSE, disk |-> d]
  ELSE [ok |-> TRUE, disk |-> [d EXCEPT !.dirs = @ \cup AncestorsAndSelf(dir)]]

\* a write that leaves an existing file as it is
writeFile_KeepExisting(d, target, contents) ==
  IF target \in d.dirs \/ pathDirname(target) \notin d.dirs \/ target[Len(target)] = "/"
  THEN [ok |-> FALSE, disk |-> d]
  ELSE [ok |-> TRUE,
        disk |-> [d EXCEPT !.files =
                    [f \in DOMAIN d.files \cup {target} |->
                       IF f \in DOMAIN d.files THEN d.files[f] ELSE contents]]]

\* a write that refuses a path another writer has already created
writeFile_Exclusive(d, target, contents) ==
  IF target \in d.dirs \/ pathDirname(target) \notin d.dirs \/ target[Len(target)] = "/"
     \/ target \in DOMAIN d.files
  THEN [ok |-> FALSE, disk |-> d]
  ELSE [ok |-> TRUE,
        disk |-> [d EXCEPT !.files =
                    [f \in DOMAIN d.files \cup {target} |->
                       IF f = target THEN contents ELSE d.files[f]]]]

\* fs.writeFile(target, contents) / fs.writeFileSync: truncates and overwrites
writeFile(d, target, contents) ==
  IF target \in d.dirs \/ pathDirname(target) \notin d.dirs \/ target[Len(target)] = "/"
  THEN [ok |-> FALSE, disk |-> d]
  ELSE [ok |-> TRUE,
        disk |-> [d EXCEPT !.files =
                    [f \in DOMAIN d.files \cup {target} |->
                       IF f = target THEN contents ELSE d.files[f]]]]

\* fs.rm(target, {force: true}): a missing path is no error, a directory is
rmForce(d, target) ==
  IF target \in d.dirs THEN [ok |-> FALSE, disk |-> d]
  ELSE IF target \in DOMAIN d.files
       THEN [ok |-> TRUE,
             disk |-> [d EXCEPT !.files = [f \in DOMAIN d.files \ {target} |-> d.files[f]]]]
       ELSE IF \E c \in AncestorsAndSelf(target) : c \in DOMAIN d.files
            THEN [ok |-> FALSE, disk |-> d]
            ELSE [ok |-> TRUE, disk |-> d]

existsSync(d, full) == full \in d.dirs \/ full \in DOMAIN d.files

\* fs.unlinkSync(full): removes a file, fails on a directory
unlinkSync(d, full) ==
  IF full \in DOMAIN d.files
  THEN [ok |-> TRUE,
        disk |-> [d EXCEPT !.files = [f \in DOMAIN d.files \ {full} |-> d.files[f]]]]
  ELSE [ok |-> FALSE, disk |-> d]

\* ------------------------------------------------------------ main: schema

Has(a, k) == k \in DOMAIN a

\* z.object(...) keeps the declared keys only
Strip(a, keys) == [k \in keys |-> a[k]]

CreateFile(a) ==
  IF a.type = "create_file" /\ Has(a, "path") /\ Has(a, "contents")
  THEN <<Strip(a, {"type", "path", "contents"})>> ELSE <<>>

UpdateFile(a) ==
  IF a.type = "update_file" /\ Has(a, "path") /\ Has(a, "contents")
  THEN <<Strip(a, {"type", "path", "contents"})>> ELSE <<>>

DeleteFile(a) ==
  IF a.type = "delete_file" /\ Has(a, "path")
  THEN <<Strip(a, {"type", "path"})>> ELSE <<>>

RunCommand(a) ==
  IF a.type = "run_command" /\ Has(a, "script")
  THEN <<Strip(a, {"type", "script"})>> ELSE <<>>

\* z.union: the first member that accepts the value; <<>> when none does
ActionSchema(a) ==
  IF CreateFile(a) # <<>> THEN CreateFile(a)
  ELSE IF UpdateFile(a) # <<>> THEN UpdateFile(a)
  ELSE IF DeleteFile(a) # <<>> THEN DeleteFile(a)
  ELSE RunCommand(a)

\* PlanSchema.parse(data.plan): every element parsed, or a ZodError
PlanSchema(actions) ==
  IF \E k \in 1..Len(actions) : ActionSchema(actions[k]) = <<>>
  THEN [ok |-> FALSE, error |-> "ZodError"]
  ELSE [ok |-> TRUE, plan |-> [k \in 1..Len(actions) |-> ActionSchema(actions[k])[1]]]

\* the guard of main: an update_file with falsy contents
EmptyUpdate(plan) ==
  \E k \in 1..Len(plan) : plan[k].type = "update_file" /\ plan[k].contents = ""

\* --------------------------------------------------------- runAgent: helpers

Allowed == {"create_file", "update_file", "delete_file", "run_command"}

RECURSIVE validateFrom(_, _)
validateFrom(actions, k) ==
  IF k > Len(actions) THEN [ok |-> TRUE, plan |-> actions]
  ELSE LET a == actions[k]
       IN IF a.type \notin Allowed
          THEN [ok |-> FALSE, error |-> "Disallowed action"]
          ELSE IF a.type \in {"create_file", "update_file"} /\ ~Has(a, "contents")
               THEN [ok |-> FALSE, error |-> "requires contents"]
               ELSE validateFrom(actions, k + 1)

\* a validator that looks at the head of the list only
validatePlan_HeadOnly(actions) ==
  IF actions = <<>> THEN [ok |-> TRUE, plan |-> actions]
  ELSE LET v == validateFrom(<<Head(actions)>>, 1)
       IN IF v.ok THEN [ok |-> TRUE, plan |-> actions] ELSE v

validatePlan(actions) == validateFrom(actions, 1)

\* the containment test without the separator
resolveInsideWeb_NoSeparator(relPath) ==
  LET abs == pathResolve(WEB_ROOT, relPath)
  IN IF ~StartsWith(abs, WEB_ROOT)
     THEN [ok |-> FALSE, error |-> "Refusing to touch outside web/"]
     ELSE [ok |-> TRUE, abs |-> abs]

resolveInsideWeb(relPath) ==
  LET abs == pathResolve(WEB_ROOT, relPath)
  IN IF ~StartsWith(abs, WEB_ROOT_WITH_SEP)
     THEN [ok |-> FALSE, error |-> "Refusing to touch outside web/"]
     ELSE [ok |-> TRUE, abs |-> abs]

\* ------------------------------------------------------- preview inference

Reverse(q) == [k \in 1..Len(q) |-> q[Len(q) + 1 - k]]

\* String.prototype.slice(from, to) with from >= 0 and to counted from the start
Slice(s, from, to) == SubSeq(s, from + 1, to)

\* p.replace(/\\/g, "/")
Slashes(p) == [k \in 1..Len(p) |-> IF p[k] = "\\" THEN "/" ELSE p[k]]

\* a filter that keeps parenthesised segments in the route
IsGroup_Never(seg) == FALSE

IsGroup(seg) == StartsWith(seg, <<"(">>) /\ EndsWith(seg, <<")">>)

\* a route that keeps a trailing "/index" of a pages-router file
RouteOf_KeepIndex(path) ==
  LET p == Slashes(path)
  IN IF StartsWith(p, S_app) /\ EndsWith(p, S_page_tsx)
     THEN LET sub == Slice(p, Len(S_app), Len(p) - Len(S_page_tsx))
              cleaned == Join(SelectSeq(Split(sub, "/"), LAMBDA seg : ~IsGroup(seg)), "/")
          IN << <<"/">> \o cleaned >>
     ELSE IF StartsWith(p, S_pages) /\ EndsWith(p, S_tsx)
          THEN LET sub == Slice(p, Len(S_pages), Len(p) - Len(S_tsx))
               IN IF sub = S_index THEN << <<"/">> >>
                  ELSE << <<"/">> \o sub >>
          ELSE <<>>

\* the route of one path, <<>> when it matches no convention
RouteOf(path) ==
  LET p == Slashes(path)
  IN IF StartsWith(p, S_app) /\ EndsWith(p, S_page_tsx)
     THEN LET sub == Slice(p, Len(S_app), Len(p) - Len(S_page_tsx))
              cleaned == Join(SelectSeq(Split(sub, "/"), LAMBDA seg : ~IsGroup(seg)), "/")
          IN << <<"/">> \o cleaned >>
     ELSE IF StartsWith(p, S_pages) /\ EndsWith(p, S_tsx)
          THEN LET sub == Slice(p, Len(S_pages), Len(p) - Len(S_tsx))
               IN IF sub = S_index THEN << <<"/">> >>
                  ELSE IF EndsWith(sub, S_slash_index)
                       THEN << <<"/">> \o SubSeq(sub, 1, Len(sub) - Len(S_slash_index)) >>
                       ELSE << <<"/">> \o sub >>
          ELSE <<>>

RECURSIVE FirstRoute(_)
FirstRoute(touched) ==
  IF touched = <<>> THEN <<>>
  ELSE IF Has(Head(touched), "path") /\ RouteOf(Head(touched).path) # <<>>
       THEN RouteOf(Head(touched).path)
       ELSE FirstRoute(Tail(touched))

\* an inferencer that scans the plan from its first action
inferPreviewPathFromActions_Forward(actions) ==
  LET touched == actions
  IN IF FirstRoute(touched) # <<>> THEN FirstRoute(touched)
     ELSE IF \E k \in 1..Len(touched) :
                Has(touched[k], "path")
                /\ (touched[k].path = S_app_page \/ touched[k].path = S_pages_index)
          THEN << <<"/">> >>
          ELSE <<>>

\* <<route>>, or <<>> for null
inferPreviewPathFromActions(actions) ==
  LET touched == Reverse(actions)
  IN IF FirstRoute(touched) # <<>> THEN FirstRoute(touched)
     ELSE IF \E k \in 1..Len(touched) :
                Has(touched[k], "path")
                /\ (touched[k].path = S_app_page \/ touched[k].path = S_pages_index)
          THEN << <<"/">> >>
          ELSE <<>>

\* ------------------------------------------------------------------- state

VARIABLES
  entry,     \* which entry point serves the request: "main" (CLI), "post" (/api/chat ->
             \* runAgent) or "cli" (runAgentViaCLI -> the CLI section of runAgent's file)
  message,   \* the prompt text handed to the entry point ("" when there is none)
  reply,     \* what the planner answers to the one request it is sent
  pc,        \* position of the invocation
  plan,      \* the validated plan being executed
  i,         \* index of the plan action being processed
  disk,      \* the file tree
  logs,      \* runAgent's logs array
  console,   \* stdout lines of main
  spawned,   \* command lines of the processes started so far
  result,    \* settlement of the invocation as its caller sees it
  http,      \* the response of POST /api/chat
  requests,  \* how many requests the invocation has sent to the planner
  cli,       \* the child process runAgentViaCLI spawned: exit code, stdout lines, stderr
  via,       \* settlement of the promise of runAgentViaCLI
  peer,      \* a second invocation sharing the file tree, while it is not the one stepping
  chat       \* the chat page in the browser: its React state and the requests it has sent

vars == <<entry, message, reply, pc, plan, i, disk, logs, console, spawned, result, http,
          requests, cli, via, peer, chat>>

\* the state outside one direct invocation
hosted == <<cli, via, peer, chat>>

Pending == [kind |-> "pending"]

Replies ==
  { [kind |-> "ok", actions |-> q] : q \in PlanUniverse }
    \cup { [kind |-> "no_actions", actions |-> <<>>],
           [kind |-> "http_error", actions |-> <<>>],
           [kind |-> "unreachable", actions |-> <<>>],
           [kind |-> "hang", actions |-> <<>>],
           [kind |-> "stall", actions |-> <<>>] }

\* exit is <<>> while the process runs, <<code>> once it has ended
Running == [exit |-> <<>>, out |-> <<>>, err |-> ""]

NoPeer == [kind |-> "none"]

\* no chat page is open in the browser
NoPage ==
  [component |-> "none", input |-> <<>>, busy |-> FALSE, messages |-> <<>>,
   status |-> <<>>, preview |-> <<>>, calls |-> <<>>, clears |-> 0]

Init ==
  /\ entry \in {"main", "post"}
  /\ message \in {"", "make a page"}
  /\ reply \in Replies
  /\ (message = "" => reply.kind = "unreachable")
  /\ pc = "start"
  /\ plan = <<>>
  /\ i = 0
  /\ disk = InitialDisk
  /\ logs = <<>>
  /\ console = <<>>
  /\ spawned = <<>>
  /\ result = Pending
  /\ http = Pending
  /\ requests = 0
  /\ cli = Running
  /\ via = Pending
  /\ peer = NoPeer
  /\ chat = NoPage

\* --------------------------------------------------- POST /api/chat, runAgent

\* the entry points that reach runAgent
RunAgentEntries == {"post", "cli"}

\* the catch block of POST: a JSON error with status 500
ErrorResponse(err) == [status |-> 500, body |-> [error |-> err]]

\* a failure that hands the accumulated logs to the caller along with the error
RA_Reject_WithLogs(err) ==
  /\ pc' = "failed"
  /\ result' = [kind |-> "error", error |-> err, logs |-> logs]
  /\ http' = IF entry = "post" /\ http = Pending
             THEN [status |-> 500, body |-> [error |-> err, logs |-> logs]]
             ELSE http
  /\ UNCHANGED <<entry, message, reply, plan, i, disk, logs, console, spawned>>

\* a failure that undoes the file changes of the actions already applied
RA_Reject_Rollback(err) ==
  /\ pc' = "failed"
  /\ result' = [kind |-> "error", error |-> err]
  /\ http' = IF entry = "post" /\ http = Pending THEN ErrorResponse(err) ELSE http
  /\ disk' = InitialDisk
  /\ UNCHANGED <<entry, message, reply, plan, i, logs, console, spawned>>

\* the promise of runAgent rejects: the throw leaves the function, POST catches it
RA_Reject(err) ==
  /\ pc' = "failed"
  /\ result' = [kind |-> "error", error |-> err]
  /\ http' = IF entry = "post" /\ http = Pending THEN ErrorResponse(err) ELSE http
  /\ UNCHANGED <<entry, message, reply, plan, i, disk, logs, console, spawned>>

\* a return that hands the inferencer's null to the caller
RA_Return_NullPreview(pl, lg) ==
  LET inferred == inferPreviewPathFromActions(pl)
      value == [assistant |-> "assistant_message", plan |-> pl, logs |-> lg,
                previewPath |-> IF inferred = <<>> THEN <<>> ELSE inferred[1]]
  IN /\ pc' = "done"
     /\ result' = [kind |-> "result", value |-> value]
     /\ http' = IF entry = "post" /\ http = Pending
                THEN [status |-> 200,
                      body |-> [assistant |-> value.assistant, plan |-> value.plan,
                                logs |-> value.logs, previewPath |-> value.previewPath,
                                serverMs |-> "ms"]]
                ELSE http

\* return { assistant, plan, logs, previewPath }
RA_Return(pl, lg) ==
  LET inferred == inferPreviewPathFromActions(pl)
      value == [assistant |-> "assistant_message", plan |-> pl, logs |-> lg,
                previewPath |-> IF inferred = <<>> THEN <<"/">> ELSE inferred[1]]
  IN /\ pc' = "done"
     /\ result' = [kind |-> "result", value |-> value]
     /\ http' = IF entry = "post" /\ http = Pending
                THEN [status |-> 200,
                      body |-> [assistant |-> value.assistant, plan |-> value.plan,
                                logs |-> value.logs, previewPath |-> value.previewPath,
                                serverMs |-> "ms"]]
                ELSE http

\* the loop moves to the next step, or falls out of the loop and returns
RA_Continue(d, lg, sp) ==
  /\ disk' = d
  /\ logs' = lg
  /\ spawned' = sp
  /\ i' = i + 1
  /\ UNCHANGED <<entry, message, reply, plan, console>>
  /\ IF i + 1 > Len(plan) THEN RA_Return(plan, lg)
     ELSE pc' = "loop" /\ UNCHANGED <<result, http>>

POST_Receive ==
  /\ entry = "post" /\ pc = "start"
  /\ IF message = ""
     THEN /\ http' = [status |-> 400, body |-> [error |-> "Missing 'message'."]]
          /\ pc' = "idle"
     ELSE /\ pc' = "fetch"
          /\ UNCHANGED http
  /\ requests' = IF message = "" THEN requests ELSE requests + 1
  /\ UNCHANGED <<entry, message, reply, plan, i, disk, logs, console, spawned, result>>
  /\ UNCHANGED hosted

\* a timer that also stops the invocation it gave up on
POST_Timeout_Cancel ==
  /\ entry = "post" /\ http = Pending /\ result = Pending
  /\ pc \in {"fetch", "body", "loop", "wait"}
  /\ http' = ErrorResponse("Server timeout")
  /\ pc' = "failed"
  /\ result' = [kind |-> "error", error |-> "Server timeout"]
  /\ UNCHANGED <<entry, message, reply, plan, i, disk, logs, console, spawned>>
  /\ UNCHANGED <<requests, cli, via, peer, chat>>

\* a timer that is armed only once the plan is being executed
POST_Timeout_AfterPlan ==
  /\ entry = "post" /\ http = Pending /\ result = Pending
  /\ pc \in {"loop", "wait"}
  /\ http' = ErrorResponse("Server timeout")
  /\ UNCHANGED <<entry, message, reply, pc, plan, i, disk, logs, console, spawned, result>>
  /\ UNCHANGED <<requests, cli, via, peer, chat>>

\* the timer of withTimeout wins the race; runAgent keeps running
POST_Timeout ==
  /\ entry = "post" /\ http = Pending /\ result = Pending
  /\ pc \in {"fetch", "body", "loop", "wait"}
  /\ http' = ErrorResponse("Server timeout")
  /\ UNCHANGED <<entry, message, reply, pc, plan, i, disk, logs, console, spawned, result>>
  /\ UNCHANGED <<requests, cli, via, peer, chat>>

\* a timeout that sends the request once more before giving up
RA_PlannerTimeout_Retry ==
  /\ entry \in RunAgentEntries /\ pc = "fetch"
  /\ IF requests < 2
     THEN /\ requests' = requests + 1
          /\ UNCHANGED <<entry, message, reply, pc, plan, i, disk, logs, console, spawned,
                         result, http>>
     ELSE RA_Reject("Planner request timed out") /\ UNCHANGED requests
  /\ UNCHANGED <<cli, via, peer, chat>>

\* the AbortController timer fires before the planner has answered
RA_PlannerTimeout ==
  /\ entry \in RunAgentEntries /\ pc = "fetch"
  /\ RA_Reject("Planner request timed out")
  /\ UNCHANGED <<requests, cli, via, peer, chat>>

\* the planner's answer arrives; validatePlan; the loop starts
RA_Receive ==
  /\ entry \in RunAgentEntries /\ pc = "fetch" /\ reply.kind # "hang"
  /\ UNCHANGED <<requests, cli, via, peer, chat>>
  /\ IF reply.kind = "stall"
     THEN /\ pc' = "body"
          /\ UNCHANGED <<entry, message, reply, plan, i, disk, logs, console, spawned,
                         result, http>>
     ELSE IF reply.kind = "unreachable" THEN RA_Reject("fetch failed")
     ELSE IF reply.kind = "http_error" THEN RA_Reject("Planner error")
     ELSE IF reply.kind = "no_actions" THEN RA_Reject("actions must be an array")
     ELSE LET v == validatePlan(reply.actions)
          IN IF ~v.ok THEN RA_Reject(v.error)
             ELSE /\ plan' = v.plan
                  /\ logs' = <<>>
                  /\ i' = 1
                  /\ UNCHANGED <<entry, message, reply, disk, console, spawned>>
                  /\ IF Len(v.plan) = 0 THEN RA_Return(v.plan, <<>>)
                     ELSE pc' = "loop" /\ UNCHANGED <<result, http>>

RA_WriteStep(step) ==
  IF ~Has(step, "path") THEN RA_Reject("ERR_INVALID_ARG_TYPE")
  ELSE LET target == resolveInsideWeb(step.path)
       IN IF ~target.ok THEN RA_Reject(target.error)
          ELSE LET made == mkdirRecursive(disk, pathDirname(target.abs))
                   written == writeFile(made.disk, target.abs, step.contents)
               IN IF ~made.ok \/ ~written.ok THEN RA_Reject("fs error")
                  ELSE RA_Continue(written.disk, Append(logs, <<"wrote", step.path>>), spawned)

\* a delete that logs only when there was something to delete
RA_DeleteStep_Quiet(step) ==
  IF ~Has(step, "path") THEN RA_Reject("ERR_INVALID_ARG_TYPE")
  ELSE LET target == resolveInsideWeb(step.path)
       IN IF ~target.ok THEN RA_Reject(target.error)
          ELSE LET removed == rmForce(disk, target.abs)
               IN IF ~removed.ok THEN RA_Reject("fs error")
                  ELSE RA_Continue(removed.disk,
                                   IF existsSync(disk, target.abs)
                                   THEN Append(logs, <<"deleted", step.path>>) ELSE logs,
                                   spawned)

RA_DeleteStep(step) ==
  IF ~Has(step, "path") THEN RA_Reject("ERR_INVALID_ARG_TYPE")
  ELSE LET target == resolveInsideWeb(step.path)
       IN IF ~target.ok THEN RA_Reject(target.error)
          ELSE LET removed == rmForce(disk, target.abs)
               IN IF ~removed.ok THEN RA_Reject("fs error")
                  ELSE RA_Continue(removed.disk, Append(logs, <<"deleted", step.path>>), spawned)

\* a gate that accepts any command line beginning with an allowlist entry
runWhitelistedCommand_Prefix(step) ==
  IF ~Has(step, "command") \/ ~\E w \in whitelist : StartsWith(step.command, w)
  THEN RA_Reject("Command not allowed")
  ELSE /\ spawned' = Append(spawned, step.command)
       /\ pc' = "wait"
       /\ UNCHANGED <<entry, message, reply, plan, i, disk, logs, console, result, http>>

\* runWhitelistedCommand up to cp.exec
runWhitelistedCommand(step) ==
  IF ~Has(step, "command") \/ step.command \notin whitelist
  THEN RA_Reject("Command not allowed")
  ELSE /\ spawned' = Append(spawned, step.command)
       /\ pc' = "wait"
       /\ UNCHANGED <<entry, message, reply, plan, i, disk, logs, console, result, http>>

RA_Step ==
  /\ entry \in RunAgentEntries /\ pc = "loop"
  /\ UNCHANGED <<requests, cli, via, peer, chat>>
  /\ LET step == plan[i]
     IN IF step.type \in {"create_file", "update_file"} THEN RA_WriteStep(step)
        ELSE IF step.type = "delete_file" THEN RA_DeleteStep(step)
        ELSE IF step.type = "run_command" THEN runWhitelistedCommand(step)
        ELSE RA_Continue(disk, logs, spawned)

\* the callback of cp.exec
RA_ExecCallback ==
  /\ entry \in RunAgentEntries /\ pc = "wait"
  /\ UNCHANGED <<requests, cli, via, peer, chat>>
  /\ \E err \in BOOLEAN :
       IF err THEN RA_Reject("Command failed")
       ELSE RA_Continue(disk,
                        Append(logs, <<"$", plan[i].command, "stdout", "stderr">>),
                        spawned)

\* ------------------------------------------------------------- main (CLI)

\* main().catch / process.exit(1): the process ends with exit code 1
M_Exit1(err) ==
  /\ pc' = "failed"
  /\ result' = [kind |-> "exit", code |-> 1, stderr |-> err]
  /\ UNCHANGED <<entry, message, reply, plan, i, disk, logs, console, spawned, http>>

\* runCommand up to CP.spawn
runCommand(script, d, out) ==
  IF script \notin CMD_WHITELIST THEN M_Exit1("Command not allowed")
  ELSE /\ spawned' = Append(spawned, <<Head(script)>> \o Tail(script))
       /\ disk' = d
       /\ console' = out
       /\ pc' = "wait"
       /\ UNCHANGED <<entry, message, reply, logs, result, http>>

\* String.prototype.toLowerCase on the words the planner can send
Lower(w) ==
  CASE w = "NPM" -> "npm"
    [] w = "RUN" -> "run"
    [] w = "BUILD" -> "build"
    [] OTHER -> w

\* /(^|\s)(next dev|npm run dev)(\s|$)/i.test(script)
DevPattern(script) ==
  LET low == [k \in 1..Len(script) |-> Lower(script[k])]
  IN \E k \in 1..Len(low) :
       \/ (k + 1 <= Len(low) /\ SubSeq(low, k, k + 1) = <<"next", "dev">>)
       \/ (k + 2 <= Len(low) /\ SubSeq(low, k, k + 2) = <<"npm", "run", "dev">>)

anyRunCmd(pl) == \E k \in 1..Len(pl) : pl[k].type = "run_command"

devRequested(pl) ==
  \E k \in 1..Len(pl) : pl[k].type = "run_command" /\ DevPattern(pl[k].script)

\* after the loop: start dev when a command ran but dev was not asked for
M_AfterLoop(pl, d, out) ==
  IF anyRunCmd(pl) /\ ~devRequested(pl)
  THEN runCommand(<<"npm", "run", "dev">>, d, Append(out, <<"Launching npm run dev">>))
  ELSE /\ disk' = d
       /\ console' = Append(out, <<"Done.">>)
       /\ pc' = "done"
       /\ result' = [kind |-> "exit", code |-> 0]
       /\ UNCHANGED <<entry, message, reply, logs, spawned, http>>

\* the loop moves to the next action, or falls out of the loop
M_Continue(d, out) ==
  /\ i' = i + 1
  /\ UNCHANGED plan
  /\ IF i + 1 > Len(plan) THEN M_AfterLoop(plan, d, out)
     ELSE /\ disk' = d
          /\ console' = out
          /\ pc' = "loop"
          /\ UNCHANGED <<entry, message, reply, logs, spawned, result, http>>

M_Start ==
  /\ entry = "main" /\ pc = "start"
  /\ requests' = IF message = "" THEN requests ELSE requests + 1
  /\ UNCHANGED hosted
  /\ IF message = "" THEN M_Exit1("Usage")
     ELSE /\ pc' = "fetch"
          /\ UNCHANGED <<entry, message, reply, plan, i, disk, logs, console, spawned,
                         result, http>>

\* fetchPlan returns or throws; the empty-update guard; the loop starts
M_FetchPlan ==
  /\ entry = "main" /\ pc = "fetch" /\ reply.kind # "hang"
  /\ UNCHANGED <<requests, cli, via, peer, chat>>
  /\ IF reply.kind = "stall"
     THEN /\ pc' = "body"
          /\ UNCHANGED <<entry, message, reply, plan, i, disk, logs, console, spawned,
                         result, http>>
     ELSE IF reply.kind = "unreachable" THEN M_Exit1("fetch failed")
     ELSE IF reply.kind = "http_error" THEN M_Exit1("Planner HTTP")
     ELSE IF reply.kind = "no_actions" THEN M_Exit1("ZodError")
     ELSE LET parsed == PlanSchema(reply.actions)
          IN IF ~parsed.ok THEN M_Exit1(parsed.error)
             ELSE IF EmptyUpdate(parsed.plan) THEN M_Exit1("Invalid update_file")
             ELSE /\ plan' = parsed.plan
                  /\ i' = 1
                  /\ IF Len(parsed.plan) = 0 THEN M_AfterLoop(parsed.plan, disk, console)
                     ELSE /\ pc' = "loop"
                          /\ UNCHANGED <<entry, message, reply, disk, logs, console, spawned,
                                         result, http>>

safeWrite(rel, contents) ==
  LET full == pathJoin(WEB_ROOT, rel)
      made == mkdirRecursive(disk, pathDirname(full))
      written == writeFile(made.disk, full, contents)
  IN IF ~made.ok \/ ~written.ok THEN M_Exit1("fs error")
     ELSE M_Continue(written.disk, Append(console, <<"wrote", rel>>))

M_DeleteStep(a) ==
  LET full == pathJoin(WEB_ROOT, a.path)
  IN IF existsSync(disk, full)
     THEN LET removed == unlinkSync(disk, full)
          IN IF ~removed.ok THEN M_Exit1("fs error")
             ELSE M_Continue(removed.disk, Append(console, <<"deleted", a.path>>))
     ELSE M_Continue(disk, console)

M_Step ==
  /\ entry = "main" /\ pc = "loop"
  /\ UNCHANGED <<requests, cli, via, peer, chat>>
  /\ LET a == plan[i]
     IN IF a.type \in {"create_file", "update_file"} THEN safeWrite(a.path, a.contents)
        ELSE IF a.type = "delete_file" THEN M_DeleteStep(a)
        ELSE runCommand(a.script, disk, console) /\ UNCHANGED <<plan, i>>

\* the "close" event of the child process
M_Close ==
  /\ entry = "main" /\ pc = "wait"
  /\ UNCHANGED <<requests, cli, via, peer, chat>>
  /\ \E code \in {0, 1} :
       IF code # 0 THEN M_Exit1("failed")
       ELSE IF i > Len(plan)
            THEN /\ console' = Append(console, <<"Done.">>)
                 /\ pc' = "done"
                 /\ result' = [kind |-> "exit", code |-> 0]
                 /\ UNCHANGED <<entry, message, reply, plan, i, disk, logs, spawned, http>>
            ELSE M_Continue(disk, console)

\* ------------------------------- the CLI section of runAgent, runAgentViaCLI

\* stdout is a sequence of lines; a line is <<how it starts, what follows>>
CliOutput(value) ==
  << <<"">>, <<"Assistant:">>, <<" ", value.assistant>>,
     <<"">>, <<"Plan:">>, <<" ", value.plan>>,
     <<"">>, <<"Preview:">>, <<" ", value.previewPath>> >>

\* the child starts: the usage error, or the call of runAgent
CLI_Start ==
  /\ entry = "cli" /\ pc = "start"
  /\ IF message = ""
     THEN /\ cli' = [exit |-> <<1>>, out |-> <<>>, err |-> "Usage"]
          /\ pc' = "idle"
          /\ UNCHANGED requests
     ELSE /\ pc' = "fetch"
          /\ requests' = requests + 1
          /\ UNCHANGED cli
  /\ UNCHANGED <<entry, message, reply, plan, i, disk, logs, console, spawned, result, http>>
  /\ UNCHANGED <<via, peer, chat>>

\* .then of the CLI: three console.log calls, then the process ends by itself
CLI_Then ==
  /\ entry = "cli" /\ result.kind = "result" /\ cli.exit = <<>>
  /\ cli' = [exit |-> <<0>>, out |-> CliOutput(result.value), err |-> ""]
  /\ UNCHANGED <<entry, message, reply, pc, plan, i, disk, logs, console, spawned, result, http>>
  /\ UNCHANGED <<requests, via, peer, chat>>

\* .catch of the CLI: console.error(err); process.exit(1)
CLI_Catch ==
  /\ entry = "cli" /\ result.kind = "error" /\ cli.exit = <<>>
  /\ cli' = [exit |-> <<1>>, out |-> <<>>, err |-> result.error]
  /\ UNCHANGED <<entry, message, reply, pc, plan, i, disk, logs, console, spawned, result, http>>
  /\ UNCHANGED <<requests, via, peer, chat>>

\* out.split(/\r?\n/).find(l => l.startsWith("AGENT_JSON:")): <<line>> or <<>>
FindAgentJson(out) ==
  LET hits == { k \in 1..Len(out) : out[k][1] = "AGENT_JSON:" }
  IN IF hits = {} THEN <<>>
     ELSE << out[CHOOSE k \in hits : \A h \in hits : k <= h] >>

\* the "close" handler of runAgentViaCLI
VIA_Close ==
  /\ entry = "cli" /\ cli.exit # <<>> /\ via = Pending
  /\ via' = IF cli.exit # <<0>>
            THEN [kind |-> "error",
                  error |-> IF cli.err # "" THEN cli.err ELSE "agent exited with code"]
            ELSE LET line == FindAgentJson(cli.out)
                 IN IF line = <<>>
                    THEN [kind |-> "error", error |-> "Agent did not produce AGENT_JSON output."]
                    ELSE [kind |-> "result", value |-> line[1][2]]
  /\ UNCHANGED <<entry, message, reply, pc, plan, i, disk, logs, console, spawned, result, http>>
  /\ UNCHANGED <<requests, cli, peer, chat>>

\* ------------------------------------------------------------ specification

Next ==
  \/ POST_Receive
  \/ POST_Timeout
  \/ RA_PlannerTimeout
  \/ RA_Receive
  \/ RA_Step
  \/ RA_ExecCallback
  \/ M_Start
  \/ M_FetchPlan
  \/ M_Step
  \/ M_Close

Spec == Init /\ [][Next]_vars

\* ------------------------------------ runAgent under its two hosts, page plans

MaxAgentLen == 3

P_faq == <<"p", "a", "g", "e", "s", "/", "f", "a", "q", ".", "t", "s", "x">>
P_layout == <<"a", "p", "p", "/", "l", "a", "y", "o", "u", "t", ".", "t", "s", "x">>
C_dev == <<"npm", "run", "dev">>

\* well-formed actions on page files of both routers, on a file that is no
\* page, and the two kinds of command: one that ends and a server
PageUniverse ==
  { [type |-> "create_file", path |-> S_app_page, contents |-> "c1"],
    [type |-> "create_file", path |-> P_about, contents |-> "c1"],
    [type |-> "update_file", path |-> P_blog, contents |-> "c2"],
    [type |-> "create_file", path |-> S_pages_index, contents |-> "c1"],
    [type |-> "delete_file", path |-> P_faq],
    [type |-> "create_file", path |-> P_layout, contents |-> "c1"],
    [type |-> "run_command", command |-> C_build],
    [type |-> "run_command", command |-> C_dev] }

AgentReplies ==
  { [kind |-> "ok", actions |-> q] : q \in SeqsUpTo(PageUniverse, MaxAgentLen) }
    \cup { [kind |-> "unreachable", actions |-> <<>>] }

InitAgent ==
  /\ entry \in RunAgentEntries
  /\ message \in {"", "make a page"}
  /\ reply \in AgentReplies
  /\ (message = "" => reply.kind = "unreachable")
  /\ pc = "start"
  /\ plan = <<>>
  /\ i = 0
  /\ disk = InitialDisk
  /\ logs = <<>>
  /\ console = <<>>
  /\ spawned = <<>>
  /\ result = Pending
  /\ http = Pending
  /\ requests = 0
  /\ cli = Running
  /\ via = Pending
  /\ peer = NoPeer
  /\ chat = NoPage

NextAgent ==
  \/ POST_Receive
  \/ POST_Timeout
  \/ RA_PlannerTimeout
  \/ RA_Receive
  \/ RA_Step
  \/ RA_ExecCallback
  \/ CLI_Start
  \/ CLI_Then
  \/ CLI_Catch
  \/ VIA_Close

SpecAgent == InitAgent /\ [][NextAgent]_vars

\* the allowlisted command lines that start a server: the process serves
\* until it is killed, it does not end by itself
Servers == { <<"npm", "run", "dev">>, <<"next", "dev">>, <<"next", "start">> }

\* the callback of cp.exec for a command that runs to its end
RA_CommandEnds == RA_ExecCallback /\ plan[i].command \notin Servers

\* plans of a page write, a command that ends and a server
CommandUniverse ==
  { [type |-> "create_file", path |-> S_app_page, contents |-> "c1"],
    [type |-> "run_command", command |-> C_build],
    [type |-> "run_command", command |-> C_dev] }

InitCommands ==
  /\ InitAgent
  /\ message = "make a page"
  /\ reply.kind = "ok"
  /\ \A k \in 1..Len(reply.actions) : reply.actions[k] \in CommandUniverse

\* RA_Step by what it does to the position of the invocation: it leaves the
\* loop position, or moves to the next action
RA_StepTaken ==
  /\ entry \in RunAgentEntries /\ pc = "loop"
  /\ \/ pc' \in {"wait", "done", "failed"} /\ i' \in {i, i + 1}
     \/ pc' = "loop" /\ i' = i + 1

\* the event loop runs every continuation that is ready, and a command that
\* is no server ends; nothing makes a server end
SpecCommandsFair ==
  /\ InitCommands /\ [][NextAgent]_vars
  /\ WF_vars(RA_Receive)
  /\ WF_<<pc, i>>(RA_StepTaken)
  /\ WF_vars(RA_CommandEnds)

\* ------------------------------------- one POST request, every planner reply

RouteReplies ==
  { [kind |-> "ok", actions |-> q] : q \in SeqsUpTo(CommandUniverse, MaxAgentLen) }
    \cup { [kind |-> k, actions |-> <<>>] :
             k \in {"no_actions", "http_error", "unreachable", "hang", "stall"} }

InitRoute ==
  /\ entry = "post"
  /\ message \in {"", "make a page"}
  /\ reply \in RouteReplies
  /\ (message = "" => reply.kind = "unreachable")
  /\ pc = "start"
  /\ plan = <<>>
  /\ i = 0
  /\ disk = InitialDisk
  /\ logs = <<>>
  /\ console = <<>>
  /\ spawned = <<>>
  /\ result = Pending
  /\ http = Pending
  /\ requests = 0
  /\ cli = Running
  /\ via = Pending
  /\ peer = NoPeer
  /\ chat = NoPage

NextRoute ==
  \/ POST_Receive
  \/ POST_Timeout
  \/ RA_PlannerTimeout
  \/ RA_Receive
  \/ RA_Step
  \/ RA_ExecCallback

\* the handler runs once the request is in, and a timer that is set fires;
\* nothing is assumed of the planner or of the commands
SpecRouteFair ==
  /\ InitRoute /\ [][NextRoute]_vars
  /\ WF_vars(POST_Receive)
  /\ WF_vars(POST_Timeout)

\* ------------------------- two POST requests at once on one project directory

MaxPairLen == 2

\* writes of both invocations to one path with different contents, and a
\* write to another path
PairUniverse ==
  { [type |-> "create_file", path |-> S_app_page, contents |-> "c1"],
    [type |-> "update_file", path |-> S_app_page, contents |-> "c2"],
    [type |-> "create_file", path |-> P_about, contents |-> "c1"] }

PairReplies == { [kind |-> "ok", actions |-> q] : q \in SeqsUpTo(PairUniverse, MaxPairLen) }

\* what an invocation keeps for itself: everything but the file tree and
\* the processes
Saved(id) ==
  [kind |-> "invocation", id |-> id, message |-> message, reply |-> reply, pc |-> pc,
   plan |-> plan, i |-> i, logs |-> logs, result |-> result, http |-> http,
   requests |-> requests]

InitPair ==
  /\ entry = "post"
  /\ message = "make a page"
  /\ reply \in PairReplies
  /\ pc = "start"
  /\ plan = <<>>
  /\ i = 0
  /\ disk = InitialDisk
  /\ logs = <<>>
  /\ console = <<>>
  /\ spawned = <<>>
  /\ result = Pending
  /\ http = Pending
  /\ requests = 0
  /\ cli = Running
  /\ via = Pending
  /\ peer \in { [kind |-> "invocation", id |-> 2, message |-> "make a page", reply |-> r,
                  pc |-> "start", plan |-> <<>>, i |-> 0, logs |-> <<>>,
                  result |-> Pending, http |-> Pending, requests |-> 0] : r \in PairReplies }
  /\ chat = NoPage

\* the event loop turns from one request to the other: every await of POST
\* and runAgent is a point where the other request's continuation may run
Switch ==
  /\ peer.kind = "invocation"
  /\ peer.pc \notin {"done", "failed", "idle"}
  /\ peer' = Saved(3 - peer.id)
  /\ message' = peer.message
  /\ reply' = peer.reply
  /\ pc' = peer.pc
  /\ plan' = peer.plan
  /\ i' = peer.i
  /\ logs' = peer.logs
  /\ result' = peer.result
  /\ http' = peer.http
  /\ requests' = peer.requests
  /\ UNCHANGED <<entry, disk, console, spawned, cli, via, chat>>

\* both requests are served well within the timeouts
NextPair ==
  \/ POST_Receive
  \/ RA_Receive
  \/ RA_Step
  \/ Switch

SpecPair == InitPair /\ [][NextPair]_vars

\* ------------------------------------------------------------- the chat page

\* how many messages a chat page sends
MaxSends == 2

WhiteSpace == {" ", "\t", "\n"}

RECURSIVE TrimStart(_)
TrimStart(s) ==
  IF s # <<>> /\ s[1] \in WhiteSpace THEN TrimStart(Tail(s)) ELSE s

RECURSIVE TrimEnd(_)
TrimEnd(s) ==
  IF s # <<>> /\ s[Len(s)] \in WhiteSpace THEN TrimEnd(SubSeq(s, 1, Len(s) - 1)) ELSE s

\* String.prototype.trim
Trim(s) == TrimEnd(TrimStart(s))

T_hi == <<"h", "i">>

\* what the user may have typed into the composer
Inputs == { <<>>, <<" ">>, T_hi, <<" ">> \o T_hi \o <<" ">> }

Components == {"ChatWindow", "ChatPage"}

\* the state after the first render of each component
Mounted(component) ==
  [component |-> component,
   input |-> <<>>,
   busy |-> FALSE,
   messages |-> IF component = "ChatWindow"
                  THEN << [role |-> "system",
                           content |-> "Bedrock code agent ready. Ask me to create or modify pages."] >>
                  ELSE << [role |-> "assistant",
                           content |-> "Hey! I can chat and also edit this app. What should we build?"] >>,
   status |-> <<>>,
   preview |-> IF component = "ChatWindow" THEN <<>> ELSE <<"/">>,
   calls |-> <<>>,
   clears |-> 0]

\* what /api/chat, or whatever stands between it and the browser, answers:
\* the responses of the route, and one whose body is not JSON
ChatResponses ==
  { [status |-> 200, body |-> << [assistant |-> "Planned 1 action(s).", previewPath |-> "/about"] >>],
    [status |-> 200, body |-> << [assistant |-> "", previewPath |-> ""] >>],
    [status |-> 400, body |-> << [error |-> "Missing 'message'."] >>],
    [status |-> 500, body |-> << [error |-> "Server timeout"] >>],
    [status |-> 502, body |-> <<>>] }

\* Response.ok
Ok(res) == res.status >= 200 /\ res.status <= 299

NoResponse == [status |-> 0, body |-> <<>>]

Say(role, content) == [role |-> role, content |-> content]

\* the template `<warning sign> ${text}`, the sign written in ASCII
Warning(text) == <<"/!\\ ", text>>

\* the request of a call has been sent and has neither been answered to the
\* end nor failed
Open(call) == call.net = "open"

\* onChange of the composer; the input of ChatPage is disabled while busy
Chat_Type(t) ==
  /\ chat.component \in Components
  /\ chat.component = "ChatPage" => ~chat.busy
  /\ chat' = [chat EXCEPT !.input = t]
  /\ UNCHANGED <<entry, message, reply, pc, plan, i, disk, logs, console, spawned, result,
                 http, requests, cli, via, peer>>

\* ChatWindow.send up to its first await
ChatWindow_send ==
  LET text == Trim(chat.input) IN
  IF text = <<>> \/ chat.busy
    THEN chat' = chat
    ELSE chat' = [chat EXCEPT !.input = <<>>,
                              !.messages = Append(@, Say("user", text)),
                              !.busy = TRUE,
                              !.preview = <<>>,
                              !.calls = Append(@, [pc |-> "fetch", net |-> "open",
                                                   res |-> NoResponse])]

\* ChatPage.send up to its first await
ChatPage_send ==
  LET text == Trim(chat.input) IN
  IF text = <<>>
    THEN chat' = chat
    ELSE chat' = [chat EXCEPT !.input = <<>>,
                              !.messages = Append(@, Say("user", text)),
                              !.busy = TRUE,
                              !.status = <<"Working on your request...">>,
                              !.calls = Append(@, [pc |-> "fetch", net |-> "open",
                                                   res |-> NoResponse])]

\* Enter in the composer or a click on the button. Enter reaches send of
\* ChatWindow at any time; the composer and the button of ChatPage are
\* disabled while busy
Chat_Send ==
  /\ chat.component \in Components
  /\ Len(chat.calls) < MaxSends
  /\ IF chat.component = "ChatWindow"
       THEN ChatWindow_send
       ELSE ~chat.busy /\ ChatPage_send
  /\ UNCHANGED <<entry, message, reply, pc, plan, i, disk, logs, console, spawned, result,
                 http, requests, cli, via, peer>>

\* the catch and finally blocks of the send that call c belongs to
Chat_Catch(c, text) ==
  IF chat.component = "ChatWindow"
    THEN chat' = [chat EXCEPT !.messages = Append(@, Say("assistant", Warning(text))),
                              !.busy = FALSE,
                              !.calls[c].pc = "done",
                              !.calls[c].net = "closed"]
    ELSE chat' = [chat EXCEPT !.messages = Append(@, Say("assistant", Warning(text))),
                              !.status = <<"Something went wrong. Check planner & AWS config.">>,
                              !.busy = FALSE,
                              !.clears = @ + 1,
                              !.calls[c].pc = "done",
                              !.calls[c].net = "closed"]

\* the fetch of call c settles: with a response, or rejected because the
\* server could not be reached. A send that has left its try block is not
\* waiting for it any more
Chat_FetchSettles(c) ==
  /\ c \in 1..Len(chat.calls)
  /\ Open(chat.calls[c])
  /\ chat.calls[c].pc \in {"fetch", "done"}
  /\ \/ \E res \in ChatResponses :
          IF chat.calls[c].pc = "fetch"
            THEN chat' = [chat EXCEPT !.calls[c].pc = "json", !.calls[c].res = res]
            ELSE chat' = [chat EXCEPT !.calls[c].net = "closed", !.calls[c].res = res]
     \/ IF chat.calls[c].pc = "fetch"
          THEN Chat_Catch(c, "Failed to fetch")
          ELSE chat' = [chat EXCEPT !.calls[c].net = "closed"]
  /\ UNCHANGED <<entry, message, reply, pc, plan, i, disk, logs, console, spawned, result,
                 http, requests, cli, via, peer>>

\* ChatWindow.send after the body has been parsed
ChatWindow_then(c, j) ==
  IF Has(j, "error") /\ j.error # ""
    THEN chat' = [chat EXCEPT !.messages = Append(@, Say("assistant", Warning(j.error))),
                              !.busy = FALSE,
                              !.calls[c].pc = "done",
                              !.calls[c].net = "closed"]
    ELSE chat' = [chat EXCEPT !.messages =
                                Append(@, Say("assistant",
                                              IF Has(j, "assistant") /\ j.assistant # ""
                                                THEN j.assistant ELSE "Done.")),
                              !.preview = <<j>>,
                              !.busy = FALSE,
                              !.calls[c].pc = "done",
                              !.calls[c].net = "closed"]

\* ChatPage.send after the body has been parsed
ChatPage_then(c, res, data) ==
  IF ~Ok(res)
    THEN Chat_Catch(c, IF Has(data, "error") /\ data.error # ""
                         THEN data.error ELSE "Request failed")
    ELSE LET said == Say("assistant", IF Has(data, "assistant") /\ data.assistant # ""
                                        THEN data.assistant ELSE "(no reply)")
         IN  IF Has(data, "previewPath") /\ data.previewPath # ""
               THEN chat' = [chat EXCEPT !.messages = Append(@, said),
                                         !.preview = <<data.previewPath, "?", "_ts=", "now">>,
                                         !.status = <<"Updated files. Previewing ", data.previewPath>>,
                                         !.busy = FALSE,
                                         !.clears = @ + 1,
                                         !.calls[c].pc = "done",
                                         !.calls[c].net = "closed"]
               ELSE chat' = [chat EXCEPT !.messages = Append(@, said),
                                         !.status = <<"Updated files.">>,
                                         !.busy = FALSE,
                                         !.clears = @ + 1,
                                         !.calls[c].pc = "done",
                                         !.calls[c].net = "closed"]

\* the body of the response of call c has arrived and json() settles
Chat_JsonSettles(c) ==
  /\ c \in 1..Len(chat.calls)
  /\ chat.calls[c].pc = "json"
  /\ LET res == chat.calls[c].res IN
       IF res.body = <<>>
         THEN Chat_Catch(c, "Unexpected token")
         ELSE IF chat.component = "ChatWindow"
                THEN ChatWindow_then(c, res.body[1])
                ELSE ChatPage_then(c, res, res.body[1])
  /\ UNCHANGED <<entry, message, reply, pc, plan, i, disk, logs, console, spawned, result,
                 http, requests, cli, via, peer>>

\* the 35 s timer of ChatPage.send wins the race against fetch: the send goes
\* to its catch and finally blocks, and nothing aborts the fetch
Chat_ClientTimeout(c) ==
  /\ chat.component = "ChatPage"
  /\ c \in 1..Len(chat.calls)
  /\ chat.calls[c].pc = "fetch"
  /\ chat' = [chat EXCEPT !.messages =
                            Append(@, Say("assistant", Warning("Client timeout after 35000ms"))),
                          !.status = <<"Something went wrong. Check planner & AWS config.">>,
                          !.busy = FALSE,
                          !.clears = @ + 1,
                          !.calls[c].pc = "done"]
  /\ UNCHANGED <<entry, message, reply, pc, plan, i, disk, logs, console, spawned, result,
                 http, requests, cli, via, peer>>

\* a 3 s timer set by a finally block of ChatPage.send fires
Chat_ClearStatus ==
  /\ chat.clears > 0
  /\ chat' = [chat EXCEPT !.status = <<>>, !.clears = @ - 1]
  /\ UNCHANGED <<entry, message, reply, pc, plan, i, disk, logs, console, spawned, result,
                 http, requests, cli, via, peer>>

InitChat ==
  /\ entry = "post"
  /\ message = ""
  /\ reply = [kind |-> "unreachable", actions |-> <<>>]
  /\ pc = "idle"
  /\ plan = <<>>
  /\ i = 0
  /\ disk = InitialDisk
  /\ logs = <<>>
  /\ console = <<>>
  /\ spawned = <<>>
  /\ result = Pending
  /\ http = Pending
  /\ requests = 0
  /\ cli = Running
  /\ via = Pending
  /\ peer = NoPeer
  /\ chat \in { Mounted(component) : component \in Components }

NextChat ==
  \/ \E t \in Inputs : Chat_Type(t)
  \/ Chat_Send
  \/ \E c \in 1..MaxSends : Chat_FetchSettles(c)
  \/ \E c \in 1..MaxSends : Chat_JsonSettles(c)
  \/ \E c \in 1..MaxSends : Chat_ClientTimeout(c)
  \/ Chat_ClearStatus

SpecChat == InitChat /\ [][NextChat]_vars

\* ------------------------------------------------------ vocabulary of the claims

\* an absolute path lies strictly below the project root, segment by segment
InsideRoot(abs) ==
  LET root == Split(WEB_ROOT, "/")
      segs == Split(abs, "/")
  IN Len(segs) > Len(root) /\ SubSeq(segs, 1, Len(root)) = root

\* the absolute path a path-bearing action of the running entry point addresses
TargetOf(a) ==
  IF entry = "main" THEN pathJoin(WEB_ROOT, a.path) ELSE pathResolve(WEB_ROOT, a.path)

IsWrite(a) == a.type \in {"create_file", "update_file"}

IsDelete(a) == a.type = "delete_file"

IsRun(a) == a.type = "run_command"

Failed ==
  result.kind = "error" \/ (result.kind = "exit" /\ result.code = 1)

ErrorOf == IF result.kind = "error" THEN result.error
           ELSE IF result.kind = "exit" /\ result.code = 1 THEN result.stderr
           ELSE "none"

\* the files a strictly sequential application of plan[1..k] leaves behind
RECURSIVE ExpectedFiles(_)
ExpectedFiles(k) ==
  IF k = 0 THEN InitialDisk.files
  ELSE LET prev == ExpectedFiles(k - 1)
           a == plan[k]
       IN IF IsWrite(a)
          THEN [f \in DOMAIN prev \cup {TargetOf(a)} |->
                  IF f = TargetOf(a) THEN a.contents ELSE prev[f]]
          ELSE IF IsDelete(a)
               THEN [f \in DOMAIN prev \ {TargetOf(a)} |-> prev[f]]
               ELSE prev

\* ------------------------------------------------------------------ claims

\* C1: whatever plan is processed, no file outside the project root is created,
\* overwritten or deleted: every file outside the root is as it was before.
C1_NothingOutsideRootTouched ==
  \A f \in DOMAIN disk.files \cup DOMAIN InitialDisk.files :
    ~InsideRoot(f) =>
      /\ f \in DOMAIN disk.files
      /\ f \in DOMAIN InitialDisk.files
      /\ disk.files[f] = InitialDisk.files[f]

\* paths the resolver is asked about: those a planner can send, the root
\* itself, the sibling directory, an absolute path and a path that stays inside
ProbePaths ==
  { a.path : a \in { b \in ActionUniverse : Has(b, "path") } }
    \cup { <<>>, <<".", ".", "/", "w", "e", "b">>,
           <<".", ".", "/", "w", "e", "b", "-", "e", "v", "i", "l">>,
           <<"/", "e", "t", "c", "/", "p", "a", "s", "s", "w", "d">>,
           <<"/", "a", "/", "w", "e", "b", "/", "x">>,
           <<"a", "p", "p", "/", ".", ".", "/", "x">>,
           <<"a", "p", "p", "/", ".", ".", "/", ".", ".", "/", "w", "e", "b", "/", "x">> }

\* C2: the resolver returns the normalized absolute path exactly when that path
\* begins with root + separator and fails otherwise; it fails for "../secret",
\* "../../etc/passwd", the sibling /a/web-evil and the root itself (asked when
\* the request arrives); and runAgent gets past a path-bearing step only with
\* a path the resolver returned.
C2_ResolverIffInsideRoot ==
  /\ pc = "start" =>
       /\ \A p \in ProbePaths :
            LET abs == pathResolve(WEB_ROOT, p)
                r == resolveInsideWeb(p)
            IN /\ r.ok <=> StartsWith(abs, WEB_ROOT_WITH_SEP)
               /\ r.ok => r.abs = abs /\ InsideRoot(abs)
       /\ ~resolveInsideWeb(P_secret).ok
       /\ ~resolveInsideWeb(P_passwd).ok
       /\ ~resolveInsideWeb(P_evil).ok
       /\ ~resolveInsideWeb(<<".", ".", "/", "w", "e", "b", "-", "e", "v", "i", "l">>).ok
       /\ ~resolveInsideWeb(P_dot).ok
       /\ ~resolveInsideWeb(<<>>).ok
  /\ entry = "post" =>
       \A k \in 1..Len(plan) :
         Has(plan[k], "path") /\ ~InsideRoot(pathResolve(WEB_ROOT, plan[k].path)) =>
           /\ i <= k
           /\ (i = k => pc \in {"loop", "failed"})
           /\ (i = k /\ pc = "failed" => ErrorOf = "Refusing to touch outside web/")

\* runAgent stopped at a step whose path resolves to the sibling directory
C2_Witness ==
  /\ entry = "post" /\ pc = "failed" /\ i = 2 /\ Len(plan) = 2
  /\ Has(plan[2], "path") /\ plan[2].path = P_evil
  /\ ErrorOf = "Refusing to touch outside web/"
  /\ disk.files = ExpectedFiles(1) /\ disk.files # InitialDisk.files

\* the command line of a run_command action as the entry point reads it, <<>> when absent
CommandOf(a) ==
  IF entry = "main" THEN a.script
  ELSE IF Has(a, "command") THEN a.command ELSE <<>>

AllowlistOfEntry == IF entry = "main" THEN CMD_WHITELIST ELSE whitelist

\* C3: a command line that is not literally an allowlist entry is rejected with
\* "Command not allowed" and starts no process; every process started runs a
\* command line that is a literal member of the allowlist.
C3_OnlyAllowlistedSpawned ==
  /\ \A k \in 1..Len(spawned) : spawned[k] \in AllowlistOfEntry
  /\ \A k \in 1..Len(plan) :
       IsRun(plan[k]) /\ CommandOf(plan[k]) \notin AllowlistOfEntry =>
         /\ i <= k
         /\ (i = k => pc \in {"loop", "failed"})
         /\ (i = k /\ pc = "failed" => ErrorOf = "Command not allowed")
  /\ {C_build_args, C_build_meta, C_build_case} \cap (CMD_WHITELIST \cup whitelist) = {}

\* an allowlisted command ran, then the same command with a trailing argument was refused
C3_Witness ==
  /\ entry = "post" /\ pc = "failed" /\ i = 2 /\ Len(plan) = 2
  /\ Has(plan[1], "command") /\ plan[1].command = C_build
  /\ Has(plan[2], "command") /\ plan[2].command = C_build_args
  /\ spawned = <<C_build>>
  /\ ErrorOf = "Command not allowed"

UnknownKind(actions) == \E k \in 1..Len(actions) : actions[k].type \notin Allowed

SchemaErrors == {"Disallowed action", "requires contents", "ZodError"}

\* C4: a plan holding an action of an unrecognized kind at any position is
\* rejected as a whole with a schema error before anything is executed: no
\* file is written or deleted and no command is run.
C4_UnknownKindRejectsWholePlan ==
  UnknownKind(reply.actions) =>
    /\ disk = InitialDisk
    /\ spawned = <<>>
    /\ logs = <<>> /\ console = <<>>
    /\ pc \in {"start", "fetch", "failed"}
    /\ (pc = "failed" => ErrorOf \in SchemaErrors \cup {"Planner request timed out"})

\* a well-formed write followed by exec_shell: rejected, nothing written
C4_Witness ==
  /\ pc = "failed" /\ Len(reply.actions) = 2
  /\ IsWrite(reply.actions[1]) /\ Has(reply.actions[1], "contents")
  /\ InsideRoot(TargetOf(reply.actions[1]))
  /\ reply.actions[2].type = "exec_shell"
  /\ ErrorOf \in SchemaErrors
  /\ disk = InitialDisk

\* the fields the spec requires of each kind, the command under the field name
\* the entry point reads
LacksRequiredField(a) ==
  \/ a.type \in {"create_file", "update_file", "delete_file"} /\ ~Has(a, "path")
  \/ a.type \in {"create_file", "update_file"} /\ ~Has(a, "contents")
  \/ a.type = "run_command" /\ ~Has(a, IF entry = "main" THEN "script" ELSE "command")

\* C5: a plan in which some element lacks a required field of its kind is
\* rejected before any side effect: nothing of it is ever applied.
C5_MissingFieldRejectedBeforeEffects ==
  (\E k \in 1..Len(reply.actions) : LacksRequiredField(reply.actions[k])) =>
    /\ disk = InitialDisk
    /\ spawned = <<>>

\* the number of run_command actions among plan[1..k]
RECURSIVE RunsUpTo(_)
RunsUpTo(k) ==
  IF k = 0 THEN 0
  ELSE RunsUpTo(k - 1) + (IF k <= Len(plan) /\ IsRun(plan[k]) THEN 1 ELSE 0)

ExitedNonzero == ErrorOf \in {"Command failed", "failed"}

\* C6: when action i fails, the effects of the actions before i are on disk
\* exactly as applied, the failing action leaves nothing behind but the process
\* it started, and from then on nothing is applied any more.
C6_FailStopNoRollback ==
  /\ [](Failed /\ i >= 1 =>
          /\ disk.files = ExpectedFiles(i - 1)
          /\ Len(spawned) = RunsUpTo(i - 1) + (IF ExitedNonzero THEN 1 ELSE 0))
  /\ [][Failed =>
          /\ disk' = disk /\ spawned' = spawned /\ i' = i
          /\ logs' = logs /\ console' = console /\ result' = result]_vars

\* a write was applied, then the second action was refused, with a third never reached
C6_Witness ==
  /\ Failed /\ i = 2 /\ Len(plan) > 1
  /\ IsWrite(plan[1])
  /\ TargetOf(plan[1]) \in DOMAIN disk.files
  /\ disk.files[TargetOf(plan[1])] = plan[1].contents
  /\ ErrorOf \in {"Refusing to touch outside web/", "Command not allowed",
                  "Command failed", "failed"}

\* C7: a failing invocation of runAgent hands its caller one error and nothing
\* else: no result, no log entries, no preview path; the response of POST
\* carries status 500 and an error field only.
C7_FailureYieldsOnlyError ==
  entry = "post" /\ (pc = "failed" \/ result.kind = "error") =>
    /\ pc = "failed"
    /\ DOMAIN result = {"kind", "error"}
    /\ result.kind = "error"
    /\ http.status = 500
    /\ DOMAIN http.body = {"error"}

\* a command exited nonzero after a write had been logged
C7_Witness ==
  /\ entry = "post" /\ pc = "failed"
  /\ ErrorOf = "Command failed"
  /\ logs # <<>>
  /\ http = ErrorResponse("Command failed")

\* the command lines a strictly sequential run of plan[1..k] starts, in order
RECURSIVE ExpectedSpawned(_)
ExpectedSpawned(k) ==
  IF k = 0 THEN <<>>
  ELSE IF IsRun(plan[k]) THEN Append(ExpectedSpawned(k - 1), CommandOf(plan[k]))
  ELSE ExpectedSpawned(k - 1)

\* the log entry runAgent owes action a
ExpectedLog(a) ==
  IF IsWrite(a) THEN <<"wrote", a.path>>
  ELSE IF IsDelete(a) THEN <<"deleted", a.path>>
  ELSE <<"$", a.command, "stdout", "stderr">>

\* C8: the actions are applied strictly in plan order, one at a time: whenever
\* the executor is at action i, exactly the effects of actions 1..i-1 are in
\* place; on success runAgent returns one log entry per action, in plan order,
\* in the documented form.
C8_InOrderOneLogPerAction ==
  /\ i >= 1 /\ ~Failed =>
       LET ran == ExpectedSpawned(IF pc = "wait" /\ i <= Len(plan) THEN i ELSE i - 1)
       IN /\ disk.files = ExpectedFiles(i - 1)
          /\ Len(spawned) >= Len(ran)
          /\ SubSeq(spawned, 1, Len(ran)) = ran
          /\ (entry = "post" => spawned = ran)
  /\ entry = "post" /\ i >= 1 /\ ~Failed =>
       logs = [k \in 1..(i - 1) |-> ExpectedLog(plan[k])]
  /\ entry = "post" /\ pc = "done" =>
       /\ i = Len(plan) + 1
       /\ result.value.logs = [k \in 1..Len(plan) |-> ExpectedLog(plan[k])]
       /\ result.value.plan = plan

\* runAgent returned after a write and a delete, with their two entries in order
C8_Witness ==
  /\ entry = "post" /\ pc = "done" /\ Len(plan) = 2
  /\ IsWrite(plan[1]) /\ plan[2].type \in {"delete_file", "run_command"}
  /\ plan[2] # [type |-> "delete_file", path |-> plan[1].path]
  /\ result.value.logs = <<ExpectedLog(plan[1]), ExpectedLog(plan[2])>>

LaterWrite(k) ==
  \E j \in (k + 1)..Len(plan) : IsWrite(plan[j]) /\ TargetOf(plan[j]) = TargetOf(plan[k])

LaterDelete(k) ==
  \E j \in (k + 1)..Len(plan) : IsDelete(plan[j]) /\ TargetOf(plan[j]) = TargetOf(plan[k])

\* C9 as stated: after a successful plan every written path inside the root
\* holds the contents of the last write to it in plan order.
C9_LastWriteWins_AsStated ==
  pc = "done" =>
    \A k \in 1..Len(plan) :
      IsWrite(plan[k]) /\ InsideRoot(TargetOf(plan[k])) /\ ~LaterWrite(k) =>
        /\ TargetOf(plan[k]) \in DOMAIN disk.files
        /\ disk.files[TargetOf(plan[k])] = plan[k].contents

\* C9 (amended): after a successful plan every written path inside the root
\* that no later DeleteFile of the plan removed holds exactly the contents of
\* the last write to it in plan order: a full replacement, no merge.
C9_LastWriteWins ==
  pc = "done" =>
    \A k \in 1..Len(plan) :
      IsWrite(plan[k]) /\ InsideRoot(TargetOf(plan[k])) /\ ~LaterWrite(k) /\ ~LaterDelete(k) =>
        /\ TargetOf(plan[k]) \in DOMAIN disk.files
        /\ disk.files[TargetOf(plan[k])] = plan[k].contents

\* two writes of different contents to the same path: the second is what the file holds
C9_Witness ==
  /\ pc = "done" /\ Len(plan) = 2
  /\ IsWrite(plan[1]) /\ IsWrite(plan[2])
  /\ plan[1].path = plan[2].path
  /\ plan[1].contents = "c1" /\ plan[2].contents = "c2"
  /\ disk.files[TargetOf(plan[2])] = "c2"

\* the log of the running entry point
Log == IF entry = "main" THEN console ELSE logs

\* the executor is at a DeleteFile whose path lies inside the root and names nothing
AtDeleteOfMissing ==
  /\ pc = "loop"
  /\ IsDelete(plan[i]) /\ Has(plan[i], "path")
  /\ InsideRoot(TargetOf(plan[i]))
  /\ ~existsSync(disk, TargetOf(plan[i]))

\* C10: a DeleteFile on a path inside the root that does not exist does not
\* fail, leaves the file tree unchanged and appends a "deleted <path>" entry.
C10_DeleteOfMissingIsLoggedNoOp ==
  [][AtDeleteOfMissing /\ (i' # i \/ pc' # pc) =>
       /\ pc' # "failed"
       /\ i' = i + 1
       /\ disk' = disk
       /\ Log' = Append(Log, <<"deleted", plan[i].path>>)]_vars

\* ------------------------------------------------ preview inference claims

\* the plan positions whose action carries a path that follows a page convention
Matching(pl) ==
  { k \in 1..Len(pl) : Has(pl[k], "path") /\ RouteOf(pl[k].path) # <<>> }

LastOf(K) == CHOOSE k \in K : \A h \in K : h <= k

\* runAgent has returned
Returned == entry \in RunAgentEntries /\ result.kind = "result"

R_root == <<"/">>
R_about == <<"/", "a", "b", "o", "u", "t">>
R_blog == <<"/", "b", "l", "o", "g">>
R_faq == <<"/", "f", "a", "q">>

IsAppPage(path) ==
  LET segs == Split(path, "/")
  IN Len(segs) >= 2 /\ segs[1] = <<"a", "p", "p">>
     /\ segs[Len(segs)] = Tail(S_page_tsx)

Parenthesised(seg) == seg # <<>> /\ seg[1] = "(" /\ seg[Len(seg)] = ")"

\* "/" followed by the segments between "app" and "page.tsx", groups left out
AppRoute(path) ==
  LET segs == Split(path, "/")
      inner == SubSeq(segs, 2, Len(segs) - 1)
  IN <<"/">> \o Join(SelectSeq(inner, LAMBDA seg : ~Parenthesised(seg)), "/")

\* C12: an app-router page file app/<segments>/page.tsx maps to "/" followed
\* by its segments with every parenthesised grouping segment removed:
\* app/(marketing)/about/page.tsx gives "/about", and app/page.tsx followed
\* by a command gives "/".
C12_AppRouterRoute ==
  /\ pc = "start" =>
       /\ RouteOf(P_about) = <<R_about>>
       /\ RouteOf(S_app_page) = <<R_root>>
       /\ \A k \in 1..Len(reply.actions) :
            (Has(reply.actions[k], "path") /\ IsAppPage(reply.actions[k].path)) =>
              RouteOf(reply.actions[k].path) = <<AppRoute(reply.actions[k].path)>>
  /\ Returned =>
       LET pl == result.value.plan
       IN (Matching(pl) # {} /\ IsAppPage(pl[LastOf(Matching(pl))].path)) =>
            result.value.previewPath = AppRoute(pl[LastOf(Matching(pl))].path)

\* app/(marketing)/about/page.tsx was written, then the dev server was
\* started, and runAgent returned
C12_Witness ==
  /\ Returned
  /\ Len(result.value.plan) = 2
  /\ result.value.plan[1].type = "create_file" /\ result.value.plan[1].path = P_about
  /\ result.value.plan[2] = [type |-> "run_command", command |-> C_dev]
  /\ result.value.previewPath = R_about

\* a pages-router file lies below a leading "pages" and ends in ".tsx"
IsPagesFile(path) ==
  LET segs == Split(path, "/")
  IN Len(segs) >= 2 /\ segs[1] = <<"p", "a", "g", "e", "s">>
     /\ EndsWith(segs[Len(segs)], S_tsx)

\* "/" followed by the segments below "pages", the extension dropped and a
\* final "index" left out
PagesRoute(path) ==
  LET segs == Split(path, "/")
      file == segs[Len(segs)]
      names == Append(SubSeq(segs, 2, Len(segs) - 1),
                      SubSeq(file, 1, Len(file) - Len(S_tsx)))
      kept == IF names[Len(names)] = S_index
              THEN SubSeq(names, 1, Len(names) - 1) ELSE names
  IN <<"/">> \o Join(kept, "/")

\* C13: a pages-router file pages/<segments>.tsx maps to "/<segments>"; a
\* trailing index segment collapses to its parent and the bare pages/index
\* maps to "/": pages/blog/index.tsx gives "/blog".
C13_PagesRouterRoute ==
  /\ pc = "start" =>
       /\ RouteOf(P_blog) = <<R_blog>>
       /\ RouteOf(S_pages_index) = <<R_root>>
       /\ RouteOf(P_faq) = <<R_faq>>
       /\ \A k \in 1..Len(reply.actions) :
            (Has(reply.actions[k], "path") /\ IsPagesFile(reply.actions[k].path)) =>
              RouteOf(reply.actions[k].path) = <<PagesRoute(reply.actions[k].path)>>
  /\ Returned =>
       LET pl == result.value.plan
       IN (Matching(pl) # {} /\ IsPagesFile(pl[LastOf(Matching(pl))].path)) =>
            result.value.previewPath = PagesRoute(pl[LastOf(Matching(pl))].path)

\* pages/blog/index.tsx was updated as the only action and runAgent returned
C13_Witness ==
  /\ Returned
  /\ Len(result.value.plan) = 1
  /\ result.value.plan[1].type = "update_file" /\ result.value.plan[1].path = P_blog
  /\ result.value.previewPath = R_blog

\* no action of the plan carries a path that follows a page convention, and
\* neither home-page file is among the paths
NothingToPreview(pl) ==
  \A k \in 1..Len(pl) :
    Has(pl[k], "path") =>
      /\ ~IsAppPage(pl[k].path) /\ ~IsPagesFile(pl[k].path)
      /\ pl[k].path # S_app_page /\ pl[k].path # S_pages_index

\* C14: when no path-bearing action matches either convention and neither
\* home-page file was touched, the inferencer returns null and the result of
\* runAgent carries the preview path "/".
C14_NoMatchFallsBackToRoot ==
  /\ (pc = "start" /\ reply.kind = "ok" /\ NothingToPreview(reply.actions)) =>
       inferPreviewPathFromActions(reply.actions) = <<>>
  /\ (Returned /\ NothingToPreview(result.value.plan)) =>
       /\ result.value.previewPath = R_root
       /\ (entry = "post" /\ http.status = 200) => http.body.previewPath = R_root

\* a plan that writes app/layout.tsx and builds has returned
C14_Witness ==
  /\ Returned
  /\ Len(result.value.plan) = 2
  /\ result.value.plan[1].type = "create_file" /\ result.value.plan[1].path = P_layout
  /\ result.value.plan[2] = [type |-> "run_command", command |-> C_build]
  /\ inferPreviewPathFromActions(result.value.plan) = <<>>
  /\ result.value.previewPath = R_root

\* ------------------------------------------------------- planner call claims

\* the invocation has sent its request and has not yet got the whole answer
WaitingOnPlanner == pc \in {"fetch", "body"}

\* C15: the planner call is bounded by a timeout: as long as the invocation
\* waits on the planner the timer that aborts the request is armed, so the
\* wait can always end in the timeout error; and a run that ended in the
\* timeout error validated and executed nothing.
C15_PlannerWaitIsBounded ==
  /\ WaitingOnPlanner => ENABLED RA_PlannerTimeout
  /\ (pc = "failed" /\ result.kind = "error"
        /\ result.error = "Planner request timed out") =>
       (plan = <<>> /\ disk = InitialDisk /\ spawned = <<>>)

\* ------------------------------------------------------------- termination

Executing == entry \in RunAgentEntries /\ pc \in {"loop", "wait"}

Settled ==
  \/ pc = "done" /\ result.kind = "result"
  \/ pc = "failed" /\ result.kind = "error"

\* C16: once the execution of a validated plan has begun, the invocation
\* eventually returns its result or raises the error of the first failing
\* action, for every validated plan, allowlisted commands included.
C16_ExecutionTerminates == Executing ~> Settled

\* ------------------------------------------------------------- concurrency

\* the invocation with the given number, whether it is stepping or not
Invocation(id) == IF peer.id = id THEN peer ELSE Saved(id)

Over(v) == v.pc \in {"done", "failed", "idle"}

\* the plan positions of the writes to a path
WritesTo(pl, path) == { k \in 1..Len(pl) : IsWrite(pl[k]) /\ pl[k].path = path }

\* the contents a path can be left with by two plans that both write it to
\* the end: those of the last write of the one or of the other
LastWrites(path) ==
  { Invocation(id).plan[LastOf(WritesTo(Invocation(id).plan, path))].contents :
      id \in { n \in {1, 2} : WritesTo(Invocation(n).plan, path) # {} } }

\* the invocation that is stepping applies a write
WriteApplied ==
  /\ peer' = peer
  /\ pc = "loop" /\ IsWrite(plan[i])
  /\ (i' # i \/ pc' # pc)

\* C17: two runAgent invocations on one project root are not coordinated.
\* A write is applied whatever the other invocation has written to the
\* path: it does not fail, it logs "wrote <path>" and the file holds its
\* contents.  When both invocations are over, both have returned with one
\* log entry per action, and every path written holds the contents of the
\* last write of one of the two plans to it.
C17_UncoordinatedLastWriteWins ==
  /\ []((peer.kind = "invocation" /\ Over(Invocation(1)) /\ Over(Invocation(2))) =>
          /\ \A id \in {1, 2} :
                /\ Invocation(id).result.kind = "result"
                /\ Invocation(id).result.value.logs
                     = [k \in 1..Len(Invocation(id).plan) |->
                          <<"wrote", Invocation(id).plan[k].path>>]
          /\ \A path \in {S_app_page, P_about} :
                LastWrites(path) # {} =>
                  /\ pathResolve(WEB_ROOT, path) \in DOMAIN disk.files
                  /\ disk.files[pathResolve(WEB_ROOT, path)] \in LastWrites(path))
  /\ [][WriteApplied =>
          /\ pc' # "failed"
          /\ logs' = Append(logs, <<"wrote", plan[i].path>>)
          /\ disk'.files[pathResolve(WEB_ROOT, plan[i].path)] = plan[i].contents]_vars

\* the second invocation ran from start to end between two actions of the
\* first, and overwrote what the first had written
C17_Witness ==
  /\ peer.kind = "invocation" /\ peer.id = 2
  /\ peer.pc = "done" /\ peer.plan = <<[type |-> "update_file", path |-> S_app_page,
                                         contents |-> "c2"]>>
  /\ pc = "loop" /\ i = 2
  /\ plan[1] = [type |-> "create_file", path |-> S_app_page, contents |-> "c1"]
  /\ logs = << <<"wrote", S_app_page>> >>
  /\ disk.files[pathResolve(WEB_ROOT, S_app_page)] = "c2"

\* ------------------------------------------------------- the CLI as a child

\* C18: on every successful run the last line the CLI writes to standard
\* output starts with AGENT_JSON: and carries the result of runAgent, so
\* runAgentViaCLI resolves with that result whenever the CLI exits with
\* code 0 and rejects only when the exit code is not 0.
C18_SentinelLineReachesParent ==
  /\ (entry = "cli" /\ cli.exit = <<0>>) =>
       /\ cli.out # <<>>
       /\ cli.out[Len(cli.out)] = <<"AGENT_JSON:", result.value>>
  /\ (entry = "cli" /\ via.kind = "error") => cli.exit # <<0>>
  /\ (entry = "cli" /\ via.kind = "result") => via.value = result.value

\* ------------------------------------------------------- planner failures

\* the errors of the planner call: unreachable, a status outside 2xx (as
\* runAgent and as fetchPlan word it), the timeout
E_unreachable == "fetch failed"
E_status == IF entry = "main" THEN "Planner HTTP" ELSE "Planner error"
E_timeout == "Planner request timed out"

PlannerFailed == Failed /\ ErrorOf \in {E_unreachable, E_status, E_timeout}

\* C19: an invocation sends exactly one request to the planner and never a
\* second one; when the planner is unreachable, answers with a status that
\* is no success, or times out, the invocation fails with that very error,
\* the caller is handed it, and no file was written or deleted and no
\* command was started.
C19_OneRequestErrorsPropagate ==
  /\ requests <= 1
  /\ (message # "" /\ pc # "start") => requests = 1
  /\ (message # "" /\ reply.kind = "unreachable" /\ pc \notin {"start", "fetch"}) =>
       (Failed /\ ErrorOf \in {E_unreachable, E_timeout})
  /\ (message # "" /\ reply.kind = "http_error" /\ pc \notin {"start", "fetch"}) =>
       (Failed /\ ErrorOf \in {E_status, E_timeout})
  /\ PlannerFailed =>
       /\ disk = InitialDisk /\ spawned = <<>>
       /\ plan = <<>> /\ logs = <<>> /\ console = <<>>
       /\ entry = "post" => (http.status = 500 /\ http.body.error \in {ErrorOf, "Server timeout"})

\* the planner answered the single request with an error status, and POST
\* has answered with that error
C19_Witness ==
  /\ entry = "post" /\ reply.kind = "http_error"
  /\ requests = 1
  /\ result = [kind |-> "error", error |-> "Planner error"]
  /\ http = [status |-> 500, body |-> [error |-> "Planner error"]]

\* ------------------------------------------------------------ empty updates

\* the planner's action list holds an UpdateFile without contents or with ""
HasEmptyUpdate(actions) ==
  \E k \in 1..Len(actions) :
    /\ actions[k].type = "update_file"
    /\ (~Has(actions[k], "contents") \/ actions[k].contents = "")

\* C20: a plan with an UpdateFile whose contents are missing or empty is
\* rejected before any of its actions is executed, and no file is ever left
\* with empty contents by an UpdateFile.
C20_NoEmptyUpdate ==
  /\ (reply.kind = "ok" /\ HasEmptyUpdate(reply.actions)) =>
       /\ pc \in {"start", "fetch", "failed", "idle"}
       /\ disk = InitialDisk /\ spawned = <<>>
  /\ \A f \in DOMAIN disk.files : disk.files[f] # ""

\* ------------------------------------------------- deleted pages and preview

\* the plan positions of the writes whose path follows a page convention
MatchingWrites(pl) == { k \in Matching(pl) : IsWrite(pl[k]) }

\* C21: the route is always derived from the latest CreateFile or UpdateFile
\* whose path follows a page convention; a DeleteFile on a page file never
\* decides the preview route.
C21_OnlyWritesDecidePreview ==
  Returned =>
    LET pl == result.value.plan
    IN /\ MatchingWrites(pl) # {} =>
            result.value.previewPath = RouteOf(pl[LastOf(MatchingWrites(pl))].path)[1]
       /\ MatchingWrites(pl) = {} => result.value.previewPath = R_root

\* ------------------------------------------------------ requested commands

IsPrefix(q, r) == Len(q) <= Len(r) /\ SubSeq(r, 1, Len(q)) = q

\* C22: a process is started only for a RunCommand action of the plan, one
\* per action and in plan order: the command lines started so far are always
\* the first ones the plan asks for, and at the end exactly those it asks for.
C22_OnlyRequestedCommandsRun ==
  /\ IsPrefix(spawned, ExpectedSpawned(Len(plan)))
  /\ pc = "done" => spawned = ExpectedSpawned(Len(plan))

\* ------------------------------------------------------ the route's timeout

TimedOut == entry = "post" /\ http = ErrorResponse("Server timeout")

\* C23: when the route's timeout fires while runAgent is still running the
\* client gets the error response and nothing of the invocation is
\* cancelled: the step of the timer leaves the invocation as it is, the
\* response stays the error, and every action applied afterwards has its
\* full effect, so that a plan run to its end after the error response has
\* all its files on disk.
C23_TimeoutDoesNotCancel ==
  /\ [](TimedOut /\ pc = "done" =>
          /\ result.kind = "result"
          /\ disk.files = ExpectedFiles(Len(plan))
          /\ spawned = ExpectedSpawned(Len(plan)))
  /\ [][(http = Pending /\ TimedOut') =>
          /\ result = Pending /\ result' = Pending
          /\ UNCHANGED <<pc, plan, i, disk, logs, spawned, reply>>]_vars
  /\ [][TimedOut => http' = http]_vars
  /\ [][(TimedOut /\ pc = "loop" /\ IsWrite(plan[i]) /\ Has(plan[i], "path")
           /\ pc' \in {"loop", "done"}) =>
          /\ TargetOf(plan[i]) \in DOMAIN disk'.files
          /\ disk'.files[TargetOf(plan[i])] = plan[i].contents]_vars

\* the error response was sent, and after it the one action of the plan was
\* applied: the result is set by the step that applies the last action, and
\* the timer fires only while there is no result
C23_Witness ==
  /\ TimedOut
  /\ pc = "done" /\ result.kind = "result"
  /\ plan = <<[type |-> "create_file", path |-> S_app_page, contents |-> "c1"]>>
  /\ disk.files # InitialDisk.files
  /\ disk.files[pathResolve(WEB_ROOT, S_app_page)] = "c1"

\* ------------------------------------------------- the responses of the route

Answered == http # Pending

InFlight == { c \in 1..Len(chat.calls) : Open(chat.calls[c]) }

\* C25: a chat page has at most one /api/chat request in flight at any time:
\* a send attempted while busy starts no request, busy is true exactly while
\* a request is outstanding, and busy is false again after every request has
\* ended, by success, error response, thrown exception or client timeout.
C25_OneRequestInFlight ==
  /\ [](Cardinality(InFlight) <= 1)
  /\ [](chat.busy <=> InFlight # {})
  /\ [][chat.busy => Len(chat'.calls) = Len(chat.calls)]_vars

====
